---- MODULE Spec2Model ----
(***************************************************************************)
(* The request pipeline of the Stateset SDK: _AsyncRequestor.request in    *)
(* src/stateset/client.py with the error mapping of src/stateset/errors.py.*)
(* Spec is the retry loop, SpecErrors is raise_for_status_code on its own,  *)
(* SpecClient is the client as a whole: construction, Stateset.request     *)
(* with its body inference and headers, and aclose.                        *)
(*                                                                         *)
(* Time is counted in milliseconds, so that every delay the code computes  *)
(* from the modelled backoff factors (0.5 * 2^-1 = 0.25 s, ...) is an      *)
(* integer: 0.5 s is 500, the 10.0 s cap is 10000.                         *)
(***************************************************************************)
EXTENDS Integers, Sequences, FiniteSets, TLC

VARIABLES
    retry_config,   \* _AsyncRequestor._retry_config (frozen RetryConfig)
    pc,             \* "idle", "running" (inside the while loop), "returned", "raised"
    expected,       \* the `expected` argument of the running request
    content,        \* what the local `content` of request holds: "caller" or "response"
    attempts,       \* the local `attempts` of request
    calls,          \* network calls issued by the current request
    net_failures,   \* how many of those calls raised a network-level exception
    sleeps,         \* the arguments of asyncio.sleep, in call order
    last,           \* the outcome of the latest network call: the exception, or the
                    \* parts of the response that the branch taken depends on
    result,         \* the value request returned
    error,          \* the exception that left request
    ctor,           \* the arguments the client was constructed with
    client,         \* the constructed client: _owns_client, the headers of its
                    \* httpx.AsyncClient, _default_headers, whether that
                    \* AsyncClient is closed, and how often aclose() was awaited
    call,           \* the running Stateset.request call: its arguments (args) and
                    \* the keyword arguments it computed for the network calls
                    \* before the loop (kwargs)
    sent,           \* what the latest network call handed to httpx
    hist,           \* the transport outcomes of the running request's network
                    \* calls, in order (kept where two requests are compared)
    peer,           \* a second request on the same client, suspended at an await:
                    \* its locals and its own hist
    resource,       \* a BaseResource (src/base_resource.py): enable_caching, _cache,
                    \* _cache_timestamps, the clock, the records the server holds
                    \* and what the latest operation returned
    legacy          \* one request through Client._make_request_with_retries
                    \* (src/client.py): the hooks registered, the calls made to
                    \* them, the attempts and the outcome

vars == <<retry_config, pc, expected, content, attempts, calls, net_failures,
          sleeps, last, result, error, ctor, client, call, sent, hist, peer,
          resource, legacy>>

-----------------------------------------------------------------------------
(* Bounds of the model *)

MaxAttemptsBound == 3
MaxCalls == 5
MaxCloses == 2

(* Program constants *)

DEFAULT_MAX_RETRIES == 3
DEFAULT_BACKOFF_FACTOR == 500
BACKOFF_CAP == 10000

DEFAULT_RETRYABLE_STATUSES == {408, 409, 425, 429, 500, 502, 503, 504}

\* The retry configurations a client is built with: the default one among them.
BackoffFactors == {DEFAULT_BACKOFF_FACTOR, 6000}
RetryableChoices == {DEFAULT_RETRYABLE_STATUSES, {503}}

RetryConfig ==
    [max_attempts : 1..MaxAttemptsBound,
     backoff_factor : BackoffFactors,
     retryable_statuses : RetryableChoices]

DefaultRetryConfig ==
    [max_attempts |-> DEFAULT_MAX_RETRIES,
     backoff_factor |-> DEFAULT_BACKOFF_FACTOR,
     retryable_statuses |-> DEFAULT_RETRYABLE_STATUSES]

-----------------------------------------------------------------------------
(* The inputs: what the caller passes and what the transport answers *)

\* `expected`: None (given = FALSE), an empty sequence, or a set of codes.
ExpectedArgs ==
    {[given |-> FALSE, codes |-> {}],
     [given |-> TRUE, codes |-> {}],
     [given |-> TRUE, codes |-> {409}],
     [given |-> TRUE, codes |-> {201, 429}]}

Statuses == {200, 201, 204, 400, 401, 403, 404, 409, 418, 429, 503}

\* response.headers.get("Retry-After"): None when the header is absent.
HeaderAbsent == "<absent>"
RetryAfterValues == {HeaderAbsent, "", "later", "1.5", "30"}

ContentTypes == {"application/json", "text/plain"}

\* Response bodies: by what json.loads makes of them, and the payload's `type`.
NoField == "<no field>"
NotRead == "<not read>"
Body(kind, type) == [kind |-> kind, type |-> type]
Bodies ==
    {Body("empty", NoField), Body("text", NoField), Body("json_array", NoField),
     Body("json_object", NoField), Body("json_object", "rate_limit_error"),
     Body("json_object", "not_found_error"), Body("json_object", "custom_error")}
BodyNotRead == Body(NotRead, NoField)

\* The bodies raise_for_status_code is applied to on its own: also bytes that do
\* not decode, JSON that is no object ("json_scalar": a string, number or null),
\* every known `type`, a null `type` and a `type` that is a JSON array.
NullType == "<null>"
UnhashableType == "<array>"
ErrorBodies ==
    Bodies \cup
    {Body("undecodable", NoField), Body("json_scalar", NoField),
     Body("json_object", NullType), Body("json_object", UnhashableType),
     Body("json_object", "invalid_request_error"), Body("json_object", "api_error"),
     Body("json_object", "authentication_error"), Body("json_object", "permission_error"),
     Body("json_object", "connection_error")}
ErrorStatuses == Statuses \cup {499, 500}
ExpectedCodes == {{}, {409}, {404, 429}}

NetworkExceptions == {"TimeoutException", "HTTPError"}

-----------------------------------------------------------------------------
(* Values *)

NoError ==
    [class |-> "none", type |-> "none", status_code |-> 0, cause |-> "none",
     message |-> "none"]

\* An exception that is no StatesetError.
Foreign(class) == [NoError EXCEPT !.class = class, !.message = "<exception text>"]
NoResult == [kind |-> "unset", body |-> BodyNotRead]
NoOutcome ==
    [kind |-> "none", status |-> 0, retry_after |-> NotRead,
     content_type |-> NotRead, body |-> BodyNotRead]

Min(a, b) == IF a <= b THEN a ELSE b

\* float(retry_after): the value in milliseconds; ValueError outside the domain.
FloatOf ==
    [s \in {"1.5", "30"} |-> IF s = "1.5" THEN 1500 ELSE 30000]

ParsesAsFloat(s) == s \in DOMAIN FloatOf

-----------------------------------------------------------------------------
(* src/stateset/errors.py *)

ERROR_TYPE_MAPPING ==
    [t \in {"invalid_request_error", "api_error", "authentication_error",
            "permission_error", "not_found_error", "connection_error",
            "rate_limit_error"} |->
        CASE t = "invalid_request_error" -> "StatesetInvalidRequestError"
          [] t = "api_error" -> "StatesetAPIError"
          [] t = "authentication_error" -> "StatesetAuthenticationError"
          [] t = "permission_error" -> "StatesetPermissionError"
          [] t = "not_found_error" -> "StatesetNotFoundError"
          [] t = "connection_error" -> "StatesetConnectionError"
          [] t = "rate_limit_error" -> "StatesetRateLimitError"]

\* The messages an error is given.  BodyText is the body decoded as UTF-8 with
\* replacement characters, PayloadMessage the `message` of a JSON object or
\* "Unknown error", HTTPStatusPhrase stands for f"HTTP {status_code} {phrase}"
\* with the code in the error's status_code, HTTPError for
\* f"HTTP {status_code} HTTP error".
BodyText == "<body text>"
PayloadMessage == "<payload message>"
HTTPStatusPhrase == "HTTP <status_code> <phrase>"
HTTPError == "HTTP <status_code> HTTP error"

\* The codes http.HTTPStatus knows, among those of the model (499 is none).
HTTPStatus == {200, 201, 204, 400, 401, 403, 404, 408, 409, 418, 425, 429,
               500, 502, 503, 504}

\* StatesetError.from_response: the error built from a body, or the exception
\* the construction itself raises (AttributeError from data.get on a JSON value
\* that is no object, TypeError from looking up an unhashable `type`).
from_response(body, status_code) ==
    LET data_type ==
            IF body.kind \in {"empty", "text", "undecodable"} THEN "api_error"
            ELSE IF body.type = NoField THEN "api_error"
            ELSE body.type
    IN  IF body.kind \in {"json_array", "json_scalar"} \/ body.type = UnhashableType
        THEN [raises |-> TRUE, error |-> NoError]
        ELSE [raises |-> FALSE,
              error |-> [class |-> IF data_type \in DOMAIN ERROR_TYPE_MAPPING
                                   THEN ERROR_TYPE_MAPPING[data_type]
                                   ELSE "StatesetError",
                         type |-> data_type,
                         status_code |-> status_code,
                         cause |-> "none",
                         message |-> IF body.kind = "json_object"
                                     THEN PayloadMessage
                                     ELSE BodyText]]

\* Mutant: without the try/except around from_response its exception propagates.
raise_for_status_code_no_fallback(status_code, body, expected_codes) ==
    IF expected_codes # {} /\ status_code \in expected_codes
    THEN [raises |-> FALSE, error |-> NoError]
    ELSE IF 200 <= status_code /\ status_code < 300
    THEN [raises |-> FALSE, error |-> NoError]
    ELSE LET parsed == from_response(body, status_code)
         IN  IF parsed.raises
             THEN [raises |-> TRUE,
                   error |-> Foreign("AttributeError")]
             ELSE [raises |-> TRUE, error |-> parsed.error]

\* raise_for_status_code: raises |-> FALSE is the plain return.
raise_for_status_code(status_code, body, expected_codes) ==
    IF expected_codes # {} /\ status_code \in expected_codes
    THEN [raises |-> FALSE, error |-> NoError]
    ELSE IF 200 <= status_code /\ status_code < 300
    THEN [raises |-> FALSE, error |-> NoError]
    ELSE LET parsed == from_response(body, status_code)
         IN  IF parsed.raises
             THEN [raises |-> TRUE,
                   error |-> [class |-> "StatesetAPIError", type |-> "api_error",
                              status_code |-> status_code, cause |-> "none",
                              message |-> IF status_code \in HTTPStatus
                                          THEN HTTPStatusPhrase
                                          ELSE HTTPError]]
             ELSE [raises |-> TRUE, error |-> parsed.error]

-----------------------------------------------------------------------------
(* src/errors.py: the older raise_for_status_code *)

\* The keys of ERROR_TYPE_MAPPING in src/errors.py.
LegacyErrorTypes ==
    {"validation_error", "invalid_request_error", "api_error", "authentication_error",
     "permission_error", "not_found_error", "connection_error", "timeout_error",
     "rate_limit_error", "maintenance_error"}

\* StatesetError.from_response of src/errors.py.  It passes error_type= to the
\* class it picked, and every class of ERROR_TYPE_MAPPING passes error_type=
\* to its base itself, so each of them raises TypeError; only the base class,
\* picked for an unknown `type`, is constructed.
legacy_from_response(body, status_code) ==
    LET data_type ==
            IF body.kind \in {"empty", "text", "undecodable"} THEN "api_error"
            ELSE IF body.type = NoField THEN "api_error"
            ELSE body.type
    IN  IF \/ body.kind \in {"json_array", "json_scalar"}
           \/ body.type = UnhashableType
           \/ data_type \in LegacyErrorTypes
        THEN [raises |-> TRUE, error |-> NoError]
        ELSE [raises |-> FALSE,
              error |-> [class |-> "StatesetError", type |-> data_type,
                         status_code |-> status_code, cause |-> "none",
                         message |-> PayloadMessage]]

\* The class the older function gives an api_error of the status s.
LegacyStatusClass ==
    [s \in {401, 403, 404, 429, 503} |->
        CASE s = 401 -> [class |-> "StatesetAuthenticationError",
                         type |-> "authentication_error"]
          [] s = 403 -> [class |-> "StatesetPermissionError", type |-> "permission_error"]
          [] s = 404 -> [class |-> "StatesetNotFoundError", type |-> "not_found_error"]
          [] s = 429 -> [class |-> "StatesetRateLimitError", type |-> "rate_limit_error"]
          [] s = 503 -> [class |-> "StatesetMaintenanceError",
                         type |-> "maintenance_error"]]

\* raise_for_status_code of src/errors.py: expected_codes is a parameter that
\* the body never reads; for 400 the constructor of
\* StatesetInvalidRequestError raises TypeError.
legacy_raise_for_status_code(status_code, body, expected_codes) ==
    IF 200 <= status_code /\ status_code < 300
    THEN [raises |-> FALSE, error |-> NoError]
    ELSE LET parsed == legacy_from_response(body, status_code)
             built ==
                IF parsed.raises
                THEN [class |-> "StatesetAPIError", type |-> "api_error",
                      status_code |-> status_code, cause |-> "none",
                      message |-> IF status_code \in HTTPStatus
                                  THEN HTTPStatusPhrase
                                  ELSE "HTTP <status_code> Unknown Status"]
                ELSE parsed.error
         IN  IF built.type # "api_error"
             THEN [raises |-> TRUE, error |-> built]
             ELSE IF status_code = 400
             THEN [raises |-> TRUE, error |-> Foreign("TypeError")]
             ELSE IF status_code \in DOMAIN LegacyStatusClass
             THEN [raises |-> TRUE,
                   error |-> [built EXCEPT
                                !.class = LegacyStatusClass[status_code].class,
                                !.type = LegacyStatusClass[status_code].type]]
             ELSE [raises |-> TRUE, error |-> built]

-----------------------------------------------------------------------------
(* src/stateset/client.py: _AsyncRequestor *)

\* expected_statuses = set(expected) if expected else set(range(200, 300))
expected_statuses(exp) ==
    IF exp.given /\ exp.codes # {} THEN exp.codes ELSE 200..299

\* Mutant: the exponent is attempts instead of attempts - 1.
compute_backoff_next_power(a) ==
    Min(retry_config.backoff_factor * 2^a, BACKOFF_CAP)

\* Mutant: the 10.0 s cap is left out.
compute_backoff_uncapped(a) ==
    IF a >= 1 THEN retry_config.backoff_factor * 2^(a - 1)
    ELSE retry_config.backoff_factor \div 2^(1 - a)

\* backoff_factor * math.pow(2, attempts - 1), capped at 10.0
compute_backoff(a) ==
    LET exponential ==
            IF a >= 1 THEN retry_config.backoff_factor * 2^(a - 1)
            ELSE retry_config.backoff_factor \div 2^(1 - a)
    IN  Min(exponential, BACKOFF_CAP)

\* Mutant: a retryable status is retried whatever the attempts made.
should_retry_unbounded(status_code, a) ==
    status_code \in retry_config.retryable_statuses

\* _should_retry.
should_retry(status_code, a) ==
    /\ a < retry_config.max_attempts
    /\ status_code \in retry_config.retryable_statuses

\* Mutant: Retry-After is honoured for every retryable status, not only 429.
sleep_for_retry_any_status(status_code, retry_after, a) ==
    IF retry_after # HeaderAbsent /\ retry_after # "" /\ ParsesAsFloat(retry_after)
    THEN [delay |-> FloatOf[retry_after], src |-> "retry_after"]
    ELSE [delay |-> compute_backoff(a), src |-> "backoff"]

\* Mutant: the failed attempt is counted before its backoff is computed.
sleep_for_retry_counts_current(status_code, retry_after, a) ==
    IF status_code = 429 /\ retry_after # HeaderAbsent /\ retry_after # ""
       /\ ParsesAsFloat(retry_after)
    THEN [delay |-> FloatOf[retry_after], src |-> "retry_after"]
    ELSE [delay |-> compute_backoff(a + 1), src |-> "backoff"]

\* _sleep_for_retry: the one asyncio.sleep it makes.
sleep_for_retry(status_code, retry_after, a) ==
    IF status_code = 429 /\ retry_after # HeaderAbsent /\ retry_after # ""
    THEN IF ParsesAsFloat(retry_after)
         THEN [delay |-> FloatOf[retry_after], src |-> "retry_after"]
         ELSE [delay |-> compute_backoff(a), src |-> "backoff"]
    ELSE [delay |-> compute_backoff(a), src |-> "backoff"]

\* Mutant: the budget test is attempts > max_attempts.
handle_network_error_late(exc, a) ==
    IF a > retry_config.max_attempts
    THEN [raises |-> TRUE,
          error |-> [class |-> "StatesetConnectionError", type |-> "connection_error",
                     status_code |-> 0, cause |-> exc,
                     message |-> "Failed to reach the Stateset API"],
          sleep |-> <<>>]
    ELSE [raises |-> FALSE, error |-> NoError,
          sleep |-> <<[delay |-> compute_backoff(a), src |-> "backoff"]>>]

\* _handle_network_error, called with the incremented attempt count.
handle_network_error(exc, a) ==
    IF a >= retry_config.max_attempts
    THEN [raises |-> TRUE,
          error |-> [class |-> "StatesetConnectionError", type |-> "connection_error",
                     status_code |-> 0, cause |-> exc,
                     message |-> "Failed to reach the Stateset API"],
          sleep |-> <<>>]
    ELSE [raises |-> FALSE, error |-> NoError,
          sleep |-> <<[delay |-> compute_backoff(a), src |-> "backoff"]>>]

\* _deserialize_response, after the 204 shortcut of request.
deserialize_response(status_code, content_type, body) ==
    IF status_code = 204 THEN [raises |-> FALSE, kind |-> "None", exc |-> "none"]
    ELSE IF body.kind = "empty" THEN [raises |-> FALSE, kind |-> "None", exc |-> "none"]
    ELSE IF content_type = "application/json"
    THEN IF body.kind \in {"json_object", "json_array"}
         THEN [raises |-> FALSE, kind |-> "json", exc |-> "none"]
         ELSE [raises |-> TRUE, kind |-> "unset", exc |-> "JSONDecodeError"]
    ELSE [raises |-> FALSE, kind |-> "text", exc |-> "none"]

-----------------------------------------------------------------------------
(* Headers.  A Python dict of headers is a function from names to values, its
   keys compared as Python compares strings.  An httpx.Headers object is a
   list of (name, value) entries whose names compare ignoring case; it is
   modelled as the set of its entries with the names in lower case, which is
   how its keys(), items() and dict() show them.  Two entries of one name and
   one value are not told apart. *)

None == "<None>"

HeaderNames ==
    {"Authorization", "authorization", "User-Agent", "user-agent", "Accept", "accept",
     "Content-Type", "content-type", "X-Test", "x-test", "X-Request", "x-request"}

Lower ==
    [n \in HeaderNames |->
        CASE n \in {"Authorization", "authorization"} -> "authorization"
          [] n \in {"User-Agent", "user-agent"} -> "user-agent"
          [] n \in {"Accept", "accept"} -> "accept"
          [] n \in {"Content-Type", "content-type"} -> "content-type"
          [] n \in {"X-Test", "x-test"} -> "x-test"
          [] n \in {"X-Request", "x-request"} -> "x-request"]

EmptyDict == [n \in {} |-> ""]

Dict1(name, value) == [n \in {name} |-> value]

\* a.update(b) on dicts: the keys of b replace equal keys of a.
DictUpdate(a, b) ==
    [n \in DOMAIN a \cup DOMAIN b |-> IF n \in DOMAIN b THEN b[n] ELSE a[n]]

\* httpx.Headers(d) of a dict d.
Headers(d) == {<<Lower[n], d[n]>> : n \in DOMAIN d}

HeaderKeys(h) == {e[1] : e \in h}

\* httpx.Headers.update: every name of `new` is popped, then all the entries of
\* `new` are appended.
HeadersUpdate(h, new) == {e \in h : e[1] \notin HeaderKeys(new)} \cup new

\* Mutant: the injected client's headers are left as they are.
HeadersSetDefaults_skipped(h, d) == h

\* for header, value in d.items(): h.setdefault(header, value); d has no two
\* keys that differ in case only.
HeadersSetDefaults(h, d) ==
    h \cup {<<Lower[n], d[n]>> : n \in {m \in DOMAIN d : Lower[m] \notin HeaderKeys(h)}}

\* dict(h) of an httpx.Headers h whose names are distinct.
DictOfHeaders(h) == [n \in HeaderKeys(h) |-> (CHOOSE e \in h : e[1] = n)[2]]

\* The headers an httpx.AsyncClient has before any are given to it.
HttpxDefaultHeaders == {<<"accept", "*/*">>, <<"user-agent", "python-httpx">>}

\* f"Bearer {api_key}"
Bearer(api_key) ==
    CASE api_key = "key" -> "Bearer key"
      [] api_key = "" -> "Bearer "
      [] api_key = None -> "Bearer None"

-----------------------------------------------------------------------------
(* Construction *)

NoInitError == "none"

\* _AsyncRequestor.__init__, which is all Stateset.__init__ does with its
\* arguments: no argument is validated.
requestor_init(api_key, injected, injected_headers, additional_headers) ==
    LET default_headers ==
            DictUpdate([n \in {"Authorization", "User-Agent", "Accept"} |->
                            CASE n = "Authorization" -> Bearer(api_key)
                              [] n = "User-Agent" -> "stateset-python"
                              [] n = "Accept" -> "application/json"],
                       additional_headers)
        client_headers ==
            IF injected
            THEN HeadersSetDefaults(injected_headers, default_headers)
            ELSE HeadersUpdate(HttpxDefaultHeaders, Headers(default_headers))
    IN  [init_error |-> NoInitError,
         owns_client |-> ~injected,
         headers |-> client_headers,
         default_headers |-> DictOfHeaders(client_headers),
         closed |-> FALSE,
         aclose_calls |-> 0]

\* A constructor that raised: there is no client.
FailedClient(exc) ==
    [init_error |-> exc, owns_client |-> FALSE, headers |-> {},
     default_headers |-> EmptyDict, closed |-> FALSE, aclose_calls |-> 0]

\* src/client.py, AuthenticatedClient.__init__: `if not token: raise`.
legacy_AuthenticatedClient_init(token) ==
    IF token \in {"", None}
    THEN FailedClient("StatesetAuthenticationError")
    ELSE [FailedClient(NoInitError) EXCEPT
            !.owns_client = TRUE,
            !.headers = {<<"authorization", Bearer(token)>>},
            !.default_headers = Dict1("authorization", Bearer(token))]

\* src/client.py, Stateset.__init__: api_key or os.getenv("STATESET_API_KEY").
legacy_Stateset_init(api_key, env_key) ==
    legacy_AuthenticatedClient_init(IF api_key \in {"", None} THEN env_key ELSE api_key)

new_client(c) ==
    CASE c.class = "stateset.Stateset" ->
            requestor_init(c.api_key, c.injected, c.injected_headers, c.additional_headers)
      [] c.class = "client.AuthenticatedClient" -> legacy_AuthenticatedClient_init(c.api_key)
      [] c.class = "client.Stateset" -> legacy_Stateset_init(c.api_key, c.env_key)

Ctor(class, api_key, injected, injected_headers, additional_headers) ==
    [class |-> class, api_key |-> api_key, env_key |-> None, injected |-> injected,
     injected_headers |-> injected_headers, additional_headers |-> additional_headers]

\* Stateset(api_key="key"): the client of the retry pipeline above.
DefaultCtor == Ctor("stateset.Stateset", "key", FALSE, {}, EmptyDict)

\* The constructions of src/tests/test_client.py (own transport, injected
\* AsyncClient, additional_headers), with empty and None keys, an injected
\* client that has an Authorization header of its own, and the two
\* key-taking classes of src/client.py.
Constructions ==
    {DefaultCtor,
     Ctor("stateset.Stateset", "", FALSE, {}, EmptyDict),
     Ctor("stateset.Stateset", None, FALSE, {}, EmptyDict),
     Ctor("stateset.Stateset", "key", FALSE, {}, Dict1("X-Test", "value")),
     Ctor("stateset.Stateset", "key", FALSE, {}, Dict1("Authorization", "Token extra")),
     Ctor("stateset.Stateset", "key", FALSE, {}, Dict1("Content-Type", "application/json")),
     Ctor("stateset.Stateset", "key", TRUE, HttpxDefaultHeaders, EmptyDict),
     Ctor("stateset.Stateset", "key", TRUE, HttpxDefaultHeaders, Dict1("X-Test", "value")),
     Ctor("stateset.Stateset", "key", TRUE,
          HttpxDefaultHeaders \cup {<<"authorization", "Bearer other">>}, EmptyDict),
     Ctor("client.AuthenticatedClient", "key", FALSE, {}, EmptyDict),
     Ctor("client.AuthenticatedClient", "", FALSE, {}, EmptyDict),
     Ctor("client.AuthenticatedClient", None, FALSE, {}, EmptyDict),
     Ctor("client.Stateset", "key", FALSE, {}, EmptyDict),
     Ctor("client.Stateset", "", FALSE, {}, EmptyDict),
     Ctor("client.Stateset", None, FALSE, {}, EmptyDict),
     [Ctor("client.Stateset", None, FALSE, {}, EmptyDict) EXCEPT !.env_key = "key"]}

-----------------------------------------------------------------------------
(* Stateset.request: the body it infers from the positional `data` *)

\* A `data` argument: its Python type and, for a list or tuple, what its items
\* are ("pairs": each a 2-item list or tuple whose first item is a str).
Data(type, items) == [type |-> type, items |-> items]
NoData == Data("NoneType", "none")
DataValues ==
    {NoData, Data("dict", "none"), Data("mappingproxy", "none"), Data("str", "none"),
     Data("list", "pairs"), Data("tuple", "pairs"), Data("list", "other"),
     Data("list", "empty")}

looks_like_form_sequence(value) ==
    /\ value.type \in {"list", "tuple"}
    /\ value.items \in {"pairs", "empty"}

PerCallHeaders ==
    {EmptyDict, Dict1("X-Request", "value"), Dict1("Authorization", "Token call"),
     Dict1("authorization", "Token call"), Dict1("content-type", "text/csv")}

Args(data, json, body, files, headers) ==
    [data |-> data, json |-> json, content |-> body, files |-> files, headers |-> headers]

\* request(method, path): no body, no headers.
NoArgs == Args(NoData, None, None, None, EmptyDict)

\* request(method, path, data, headers=...), and `data` next to json=, content=
\* or files=.
CallArgs ==
    {Args(d, None, None, None, h) : d \in DataValues, h \in PerCallHeaders} \cup
    {Args(Data("dict", "none"), "json", None, None, EmptyDict),
     Args(Data("list", "pairs"), None, "bytes", None, EmptyDict),
     Args(Data("dict", "none"), None, None, "files", EmptyDict)}

\* send_json, send_data, send_content and form_encoded of Stateset.request;
\* json "data" is the data object itself, content "urlencoded" its urlencode.
infer_body(a) ==
    IF a.json = None /\ a.content = None /\ a.files = None
    THEN IF a.data.type = "dict"
         THEN [json |-> "data", data |-> NoData, content |-> None, form_encoded |-> FALSE]
         ELSE IF a.data.type \in {"list", "tuple"} /\ ~looks_like_form_sequence(a.data)
         THEN [json |-> "data", data |-> NoData, content |-> None, form_encoded |-> FALSE]
         ELSE IF a.data.type \in {"list", "tuple"} /\ looks_like_form_sequence(a.data)
         THEN [json |-> None, data |-> NoData, content |-> "urlencoded",
               form_encoded |-> TRUE]
         ELSE [json |-> a.json, data |-> a.data, content |-> a.content,
               form_encoded |-> FALSE]
    ELSE [json |-> a.json, data |-> a.data, content |-> a.content, form_encoded |-> FALSE]

\* header_values of Stateset.request.
header_values(a) ==
    IF infer_body(a).form_encoded
       /\ ~\E key \in DOMAIN a.headers : Lower[key] = "content-type"
    THEN DictUpdate(a.headers, Dict1("Content-Type", "application/x-www-form-urlencoded"))
    ELSE a.headers

\* _AsyncRequestor._merge_headers.
merge_headers(default_headers, headers) == DictUpdate(default_headers, headers)

NoSent ==
    [json |-> None, data |-> NoData, content |-> None, files |-> None,
     merged_headers |-> EmptyDict, headers |-> {}]

\* The keyword arguments of self._client.request as the call with the
\* arguments `a` on the client `c` computes them before its loop, and the
\* headers httpx then sends: the client's, updated with those of the request.
RequestKwargs(c, a) ==
    LET merged_headers == merge_headers(c.default_headers, header_values(a))
    IN  [json |-> infer_body(a).json,
         data |-> infer_body(a).data,
         content |-> infer_body(a).content,
         files |-> a.files,
         merged_headers |-> merged_headers,
         headers |-> HeadersUpdate(c.headers, Headers(merged_headers))]

NoCall == [args |-> NoArgs, kwargs |-> NoSent, caller_headers |-> EmptyDict]

\* The mapping object the caller passed as `headers`, after Stateset.request
\* built header_values: header_values is a copy (dict(headers)), so adding
\* Content-Type to it leaves the caller's object as it was.
caller_headers_after_request(a) == a.headers

\* Mutant: the merge updates self._default_headers in place.
stored_defaults_after_merge_in_place(default_headers, headers) ==
    DictUpdate(default_headers, headers)

\* self._default_headers after _merge_headers: the merge works on a copy
\* (dict(self._default_headers)), so the stored mapping is as it was.
stored_defaults_after_merge(default_headers, headers) == default_headers

\* What one network call hands to httpx: the keyword arguments, `content`
\* being the local of that name, which line 116 rebinds to a response body.
NetworkRequest(c, body) ==
    IF body = "response" THEN [c.kwargs EXCEPT !.content = "response"] ELSE c.kwargs

\* Mutant: aclose() that leaves the AsyncClient open.
\* Mutant: aclose() closes the client it holds, its own or not.
aclose_closes_injected(c) ==
    [c EXCEPT !.closed = TRUE, !.aclose_calls = @ + 1]

aclose_leaves_open(c) == [c EXCEPT !.aclose_calls = @ + 1]

\* _AsyncRequestor.aclose with httpx.AsyncClient.aclose, which closes an open
\* client and does nothing to a closed one.
aclose(c) ==
    [c EXCEPT !.closed = IF c.owns_client THEN TRUE ELSE @,
              !.aclose_calls = @ + 1]

-----------------------------------------------------------------------------
(* The state machine *)

\* The locals of a request that has not started, as a suspended request holds
\* them.
NoPeer ==
    [pc |-> "idle", expected |-> [given |-> FALSE, codes |-> {}], content |-> "caller",
     attempts |-> 0, calls |-> 0, net_failures |-> 0, sleeps |-> <<>>,
     last |-> NoOutcome, result |-> NoResult, error |-> NoError,
     call |-> NoCall, sent |-> NoSent, hist |-> <<>>]

\* No BaseResource has been built, and no request was made through the Client
\* of src/client.py.
NoResource == [enable_caching |-> FALSE]
NoLegacy ==
    [pc |-> "none", max_retries |-> 0, request_hooks |-> <<>>,
     response_hooks |-> <<>>, error_hooks |-> <<>>, attempt |-> 0,
     outcomes |-> <<>>, hook_calls |-> <<>>, rate_limit_reset |-> "<None>",
     metrics |-> [successful_requests |-> 0, failed_requests |-> 0],
     status |-> 0, error |-> "none"]

\* The client runs one request at a time: there is no second request, and the
\* outcomes of the calls are not kept.
OneRequest == UNCHANGED <<hist, peer>>

Init ==
    /\ retry_config \in RetryConfig
    /\ pc = "idle"
    /\ expected = [given |-> FALSE, codes |-> {}]
    /\ content = "caller"
    /\ attempts = 0
    /\ calls = 0
    /\ net_failures = 0
    /\ sleeps = <<>>
    /\ last = NoOutcome
    /\ result = NoResult
    /\ error = NoError
    /\ ctor = DefaultCtor
    /\ client = new_client(ctor)
    /\ call = NoCall
    /\ sent = NoSent
    /\ hist = <<>>
    /\ peer = NoPeer
    /\ resource = NoResource
    /\ legacy = NoLegacy

\* A caller awaits Stateset.request(..., expected=exp) with the arguments
\* `args`: the body inference of Stateset.request, then lines 81-83 of
\* _AsyncRequestor.request.
StatesetRequest(args, exp) ==
    /\ pc # "running"
    /\ ctor.class = "stateset.Stateset"
    /\ client.init_error = NoInitError
    /\ call' = [args |-> args, kwargs |-> RequestKwargs(client, args),
                caller_headers |-> caller_headers_after_request(args)]
    /\ client' = [client EXCEPT !.default_headers =
                        stored_defaults_after_merge(@, header_values(args))]
    /\ sent' = NoSent
    /\ pc' = "running"
    /\ expected' = exp
    /\ content' = "caller"
    /\ attempts' = 0
    /\ calls' = 0
    /\ net_failures' = 0
    /\ sleeps' = <<>>
    /\ last' = NoOutcome
    /\ result' = NoResult
    /\ error' = NoError
    /\ UNCHANGED <<retry_config, ctor, resource, legacy>>

\* request(method, path, expected=exp).
Request(exp) == StatesetRequest(NoArgs, exp)

\* One call of self._client.request on an open client: what httpx is handed.
Send ==
    /\ ~client.closed
    /\ sent' = NetworkRequest(call, content)
    /\ UNCHANGED <<ctor, resource, legacy, client, call>>

\* The network call raises exc: lines 97-104 and _handle_network_error.
NetworkFails(exc) ==
    /\ pc = "running"
    /\ calls < MaxCalls
    /\ Send
    /\ LET h == handle_network_error(exc, attempts + 1)
       IN  /\ attempts' = attempts + 1
           /\ sleeps' = sleeps \o h.sleep
           /\ pc' = IF h.raises THEN "raised" ELSE "running"
           /\ error' = h.error
    /\ calls' = calls + 1
    /\ net_failures' = net_failures + 1
    /\ last' = [NoOutcome EXCEPT !.kind = exc]
    /\ UNCHANGED <<retry_config, expected, content, result>>

NetworkTimeout == NetworkFails("TimeoutException") /\ OneRequest

NetworkHTTPError == NetworkFails("HTTPError") /\ OneRequest

\* The network call returns a response whose status is accepted: lines 106-109.
ResponseAccepted(status_code, content_type, body) ==
    /\ pc = "running"
    /\ calls < MaxCalls
    /\ Send
    /\ status_code \in expected_statuses(expected)
    /\ calls' = calls + 1
    /\ LET d == deserialize_response(status_code, content_type, body)
       IN  /\ pc' = IF d.raises THEN "raised" ELSE "returned"
           /\ result' = IF d.raises THEN NoResult
                        ELSE [kind |-> d.kind,
                              body |-> IF d.kind = "None" THEN BodyNotRead ELSE body]
           /\ error' = IF d.raises
                       THEN Foreign(d.exc)
                       ELSE NoError
    /\ last' = [kind |-> "response", status |-> status_code,
                retry_after |-> NotRead,
                content_type |-> IF status_code = 204 \/ body.kind = "empty"
                                 THEN NotRead ELSE content_type,
                body |-> IF status_code = 204 THEN BodyNotRead ELSE body]
    /\ UNCHANGED <<retry_config, expected, content, attempts, net_failures, sleeps>>

\* The response is not accepted and _should_retry allows a retry: lines 111-114.
ResponseRetried(status_code, retry_after) ==
    /\ pc = "running"
    /\ calls < MaxCalls
    /\ Send
    /\ status_code \notin expected_statuses(expected)
    /\ should_retry(status_code, attempts)
    /\ calls' = calls + 1
    /\ sleeps' = Append(sleeps, sleep_for_retry(status_code, retry_after, attempts))
    /\ attempts' = attempts + 1
    /\ last' = [kind |-> "response", status |-> status_code,
                retry_after |-> retry_after,
                content_type |-> NotRead, body |-> BodyNotRead]
    /\ UNCHANGED <<retry_config, pc, expected, content, net_failures, result, error>>

\* The response is neither accepted nor retried: lines 116-121, after which the
\* while loop goes on when raise_for_status_code returns.
ResponseRejected(status_code, body) ==
    /\ pc = "running"
    /\ calls < MaxCalls
    /\ Send
    /\ status_code \notin expected_statuses(expected)
    /\ ~should_retry(status_code, attempts)
    /\ calls' = calls + 1
    /\ content' = "response"
    /\ LET r == raise_for_status_code(status_code, body, expected_statuses(expected))
       IN  /\ pc' = IF r.raises THEN "raised" ELSE "running"
           /\ error' = r.error
    /\ last' = [kind |-> "response", status |-> status_code,
                retry_after |-> NotRead, content_type |-> NotRead, body |-> body]
    /\ UNCHANGED <<retry_config, expected, attempts, net_failures, sleeps, result>>

StartRequest == OneRequest /\ \E exp \in ExpectedArgs : Request(exp)

TransportAccepted ==
    /\ OneRequest
    /\ \E s \in Statuses, ct \in ContentTypes, b \in Bodies : ResponseAccepted(s, ct, b)

TransportRetried ==
    /\ OneRequest
    /\ \E s \in Statuses, ra \in RetryAfterValues : ResponseRetried(s, ra)

TransportRejected ==
    /\ OneRequest
    /\ \E s \in Statuses, b \in Bodies : ResponseRejected(s, b)

Next ==
    \/ StartRequest
    \/ NetworkTimeout
    \/ NetworkHTTPError
    \/ TransportAccepted
    \/ TransportRetried
    \/ TransportRejected

Spec == Init /\ [][Next]_vars

-----------------------------------------------------------------------------
(* raise_for_status_code on its own, as the tests of src/tests/test_errors.py
   call it: any status, any body, any expected_codes. `last` holds the
   arguments, `expected` the expected_codes, pc and `error` the outcome. *)

ErrInit ==
    /\ Init
    /\ retry_config = DefaultRetryConfig

RaiseForStatusCode(status_code, body, codes) ==
    /\ pc # "running"
    /\ LET r == raise_for_status_code(status_code, body, codes)
       IN  /\ pc' = IF r.raises THEN "raised" ELSE "returned"
           /\ error' = r.error
    /\ expected' = [given |-> codes # {}, codes |-> codes]
    /\ last' = [kind |-> "response", status |-> status_code,
                retry_after |-> NotRead, content_type |-> NotRead, body |-> body]
    /\ result' = NoResult
    /\ UNCHANGED <<retry_config, content, attempts, calls, net_failures, sleeps>>
    /\ UNCHANGED <<ctor, resource, legacy, client, call, sent, hist, peer>>

\* The same call of the function of src/errors.py.
LegacyRaiseForStatusCode(status_code, body, codes) ==
    /\ pc # "running"
    /\ LET r == legacy_raise_for_status_code(status_code, body, codes)
       IN  /\ pc' = IF r.raises THEN "raised" ELSE "returned"
           /\ error' = r.error
    /\ expected' = [given |-> codes # {}, codes |-> codes]
    /\ last' = [kind |-> "src/errors.py", status |-> status_code,
                retry_after |-> NotRead, content_type |-> NotRead, body |-> body]
    /\ result' = NoResult
    /\ UNCHANGED <<retry_config, content, attempts, calls, net_failures, sleeps>>
    /\ UNCHANGED <<ctor, resource, legacy, client, call, sent, hist, peer>>

ErrNext ==
    \E s \in ErrorStatuses, b \in ErrorBodies, codes \in ExpectedCodes :
        \/ RaiseForStatusCode(s, b, codes)
        \/ LegacyRaiseForStatusCode(s, b, codes)

SpecErrors == ErrInit /\ [][ErrNext]_vars

-----------------------------------------------------------------------------
(* The client as a whole: construction, Stateset.request with its body
   inference and headers, and aclose.  The transport answers with one status
   of each branch of the retry loop. *)

ClientInit ==
    /\ retry_config = DefaultRetryConfig
    /\ ctor \in Constructions
    /\ client = new_client(ctor)
    /\ pc = "idle"
    /\ expected = [given |-> FALSE, codes |-> {}]
    /\ content = "caller"
    /\ attempts = 0
    /\ calls = 0
    /\ net_failures = 0
    /\ sleeps = <<>>
    /\ last = NoOutcome
    /\ result = NoResult
    /\ error = NoError
    /\ call = NoCall
    /\ sent = NoSent
    /\ hist = <<>>
    /\ peer = NoPeer
    /\ resource = NoResource
    /\ legacy = NoLegacy

ClientExpected == {[given |-> FALSE, codes |-> {}], [given |-> TRUE, codes |-> {409}]}

\* The first request of a client; a later one starts from the same state of
\* the client, every local of request being set anew.
ClientStartRequest ==
    /\ pc = "idle"
    /\ OneRequest
    /\ \E a \in CallArgs, exp \in ClientExpected : StatesetRequest(a, exp)

ClientAccepted ==
    /\ OneRequest
    /\ \E s \in {200, 409} :
        ResponseAccepted(s, "application/json", Body("json_object", NoField))

ClientRetried == ResponseRetried(503, HeaderAbsent) /\ OneRequest

ClientRejected ==
    /\ OneRequest
    /\ \E s \in {201, 404} : ResponseRejected(s, Body("json_object", "not_found_error"))

\* await client.aclose(), also from __aexit__; it may run while a request is
\* between two network calls (in its backoff sleep).
Aclose ==
    /\ ctor.class = "stateset.Stateset"
    /\ client.init_error = NoInitError
    /\ client.aclose_calls < MaxCloses
    /\ client' = aclose(client)
    /\ UNCHANGED <<retry_config, pc, expected, content, attempts, calls, net_failures,
                   sleeps, last, result, error, ctor, resource, legacy, call, sent, hist, peer>>

\* self._client.request on a closed httpx.AsyncClient raises RuntimeError, which
\* no except clause of the loop catches (RuntimeError is no httpx.HTTPError).
ClosedCall ==
    /\ pc = "running"
    /\ client.closed
    /\ pc' = "raised"
    /\ error' = Foreign("RuntimeError")
    /\ last' = [NoOutcome EXCEPT !.kind = "RuntimeError"]
    /\ UNCHANGED <<retry_config, expected, content, attempts, calls, net_failures,
                   sleeps, result, ctor, resource, legacy, client, call, sent, hist, peer>>

ClientNext ==
    \/ ClientStartRequest
    \/ NetworkTimeout
    \/ ClientAccepted
    \/ ClientRetried
    \/ ClientRejected
    \/ Aclose
    \/ ClosedCall

SpecClient == ClientInit /\ [][ClientNext]_vars

-----------------------------------------------------------------------------
(* Vocabulary of the properties *)

Finished == pc \in {"returned", "raised"}

\* The step is one network call of the running request.
NetworkCall == pc = "running" /\ calls' = calls + 1

\* The step is a network call that returned a response / raised an exception.
ResponseStep == NetworkCall /\ last'.kind = "response"
ExceptionStep == NetworkCall /\ last'.kind \in NetworkExceptions

\* The step made exactly one more asyncio.sleep; NewSleep is its argument.
SleepStep == Len(sleeps') = Len(sleeps) + 1
NewSleep == sleeps'[Len(sleeps')]

\* No response of the request so far was dropped without return, retry or raise.
NoneSwallowed ==
    calls = attempts + (IF Finished /\ last.kind = "response" THEN 1 ELSE 0)

-----------------------------------------------------------------------------
(* C1 *)

\* C1: every call to request terminates. Each network call either ends the
\* request (it returns or raises) or uses up one of the max_attempts retries
\* (attempts grows by one and stays within max_attempts), so the loop exits
\* after finitely many network calls whatever the transport answers.
C1_EveryCallEndsOrConsumesBudget ==
    [][NetworkCall =>
          \/ pc' \in {"returned", "raised"}
          \/ attempts' = attempts + 1 /\ attempts' <= retry_config.max_attempts]_vars

-----------------------------------------------------------------------------
(* C2 *)

\* C2: a finished request has issued at least 1 and at most max_attempts
\* network calls, whatever mix of network exceptions and retryable statuses
\* the transport produced (requests none of whose responses was dropped).
C2_CallsWithinMaxAttempts ==
    (Finished /\ NoneSwallowed) =>
        (1 <= calls /\ calls <= retry_config.max_attempts)

-----------------------------------------------------------------------------
(* C3 *)

\* C3: a response whose status is not in the effective expected set and for
\* which no retry is permitted (status not retryable, or the attempt budget
\* used up) makes request raise on that attempt, with no sleep: for every
\* status, a 2xx left out of an explicit `expected` included.
C3_UnacceptedUnretriedRaises ==
    [][(/\ ResponseStep
        /\ last'.status \notin expected_statuses(expected)
        /\ \/ last'.status \notin retry_config.retryable_statuses
           \/ attempts >= retry_config.max_attempts)
       => (pc' = "raised" /\ error'.class # "none" /\ sleeps' = sleeps)]_vars

-----------------------------------------------------------------------------
(* C4 *)

\* C4: a response whose status is in the effective expected set makes request
\* return on that very attempt, without raising, sleeping or retrying, also
\* when the status is listed in retryable_statuses.
C4_AcceptedReturnsAtOnce ==
    [][(ResponseStep /\ last'.status \in expected_statuses(expected))
       => (/\ pc' = "returned"
           /\ error' = NoError
           /\ sleeps' = sleeps
           /\ attempts' = attempts)]_vars

-----------------------------------------------------------------------------
(* C5 *)

\* C5: when every network call of a request raised a network-level exception,
\* the request is still running after fewer than max_attempts calls, with one
\* backoff sleep per call, and it finishes only by raising
\* StatesetConnectionError (wrapping the transport exception) after exactly
\* max_attempts calls and max_attempts - 1 sleeps.
C5_AllNetworkFailures ==
    (calls >= 1 /\ net_failures = calls) =>
        /\ pc \in {"running", "raised"}
        /\ pc = "running" =>
              /\ calls < retry_config.max_attempts
              /\ Len(sleeps) = calls
        /\ pc = "raised" =>
              /\ calls = retry_config.max_attempts
              /\ Len(sleeps) = retry_config.max_attempts - 1
              /\ error.class = "StatesetConnectionError"
              /\ error.cause \in NetworkExceptions
              /\ error.cause = last.kind

\* The case of the spec: max_attempts = 2, always a timeout, 1 sleep, then the error.
C5_Witness ==
    /\ pc = "raised"
    /\ retry_config.max_attempts = 2
    /\ net_failures = 2
    /\ calls = 2
    /\ Len(sleeps) = 1
    /\ error.class = "StatesetConnectionError"
    /\ error.cause = "TimeoutException"

-----------------------------------------------------------------------------
(* C6 *)

\* C6: when a 429 response ends a request (429 not accepted and not retried),
\* the error raised is a StatesetRateLimitError, for every response body.
C6_RateLimitErrorFor429 ==
    (/\ pc = "raised"
     /\ last.kind = "response"
     /\ last.status = 429
     /\ 429 \notin expected_statuses(expected))
    => error.class = "StatesetRateLimitError"

-----------------------------------------------------------------------------
(* C7 *)

\* C7: a retried 429 whose Retry-After parses as a number ("1.5", "30") is
\* followed by exactly one sleep of exactly that many seconds, not by the
\* computed backoff (the 10 s cap does not apply to it); a retried response of
\* any other status is followed by exactly one sleep of the computed backoff,
\* whatever its Retry-After header says.
C7_RetryAfterPrecedence ==
    [][(ResponseStep /\ pc' = "running" /\ attempts' = attempts + 1)
       => /\ SleepStep
          /\ (last'.status = 429 /\ last'.retry_after = "1.5")
                => (NewSleep.delay = 1500 /\ NewSleep.src = "retry_after")
          /\ (last'.status = 429 /\ last'.retry_after = "30")
                => (NewSleep.delay = 30000 /\ NewSleep.src = "retry_after")
          /\ last'.status # 429
                => /\ NewSleep.src = "backoff"
                   /\ NewSleep.delay =
                        Min(IF attempts = 0
                            THEN retry_config.backoff_factor \div 2
                            ELSE retry_config.backoff_factor * 2^(attempts - 1),
                            BACKOFF_CAP)]_vars

\* A 503 carrying Retry-After: 1.5 was retried after the computed backoff, and
\* before it a 429 with Retry-After: 30 was retried after 30 s.
C7_Witness ==
    /\ pc = "running"
    /\ last.kind = "response"
    /\ last.status = 503
    /\ last.retry_after = "1.5"
    /\ Len(sleeps) = 2
    /\ sleeps[1] = [delay |-> 30000, src |-> "retry_after"]
    /\ sleeps[2].src = "backoff"

-----------------------------------------------------------------------------
(* C8 *)

\* C8 as stated: every computed backoff slept after the a-th failed attempt
\* (a counted from 1) is min(backoff_factor * 2^(a-1), 10.0), on the
\* network-exception path and on the retryable-status path alike.
C8_BackoffAfterAthFailure ==
    [][(NetworkCall /\ SleepStep /\ NewSleep.src = "backoff")
       => NewSleep.delay =
              Min(retry_config.backoff_factor * 2^(Len(sleeps') - 1), BACKOFF_CAP)]_vars

\* C8 amended: after the a-th failed attempt the computed backoff is
\* min(backoff_factor * 2^(a-1), 10.0) when the attempt failed with a network
\* exception and min(backoff_factor * 2^(a-2), 10.0) when it failed with a
\* retryable status; with the default factor the first retry after a 429
\* whose Retry-After is unparsable sleeps 0.25 s.
C8_BackoffByPath ==
    [][(NetworkCall /\ SleepStep /\ NewSleep.src = "backoff")
       => LET a == Len(sleeps')
              full == retry_config.backoff_factor * 2^(a - 1)
          IN  /\ ExceptionStep => NewSleep.delay = Min(full, BACKOFF_CAP)
              /\ ResponseStep => NewSleep.delay = Min(full \div 2, BACKOFF_CAP)
              /\ (/\ retry_config.backoff_factor = DEFAULT_BACKOFF_FACTOR
                  /\ a = 1
                  /\ ResponseStep
                  /\ last'.status = 429
                  /\ last'.retry_after = "later") => NewSleep.delay = 250]_vars

\* After a timeout (0.5 s slept), a 429 with Retry-After: later was retried: the
\* second failure slept 0.5 s again, not 1.0 s.
C8_Witness ==
    /\ pc = "running"
    /\ retry_config.backoff_factor = DEFAULT_BACKOFF_FACTOR
    /\ net_failures = 1
    /\ last.kind = "response"
    /\ last.status = 429
    /\ last.retry_after = "later"
    /\ sleeps = <<[delay |-> 500, src |-> "backoff"], [delay |-> 500, src |-> "backoff"]>>

-----------------------------------------------------------------------------
(* C9 *)

\* C9: the delay slept after a retryable status, when no Retry-After value is
\* used, is min(backoff_factor * 2^(k-1), 10.0) with k the number of attempts
\* that had failed before the current one; with the default RetryConfig a
\* first response of 503, or of 429 with an unparsable Retry-After, sleeps 0.25 s.
C9_StatusBackoffUsesPriorFailures ==
    [][(ResponseStep /\ SleepStep /\ NewSleep.src = "backoff")
       => LET k == Len(sleeps)
          IN  /\ 2 * NewSleep.delay =
                    Min(retry_config.backoff_factor * 2^k, 2 * BACKOFF_CAP)
              /\ (/\ retry_config = DefaultRetryConfig
                  /\ calls = 0
                  /\ \/ last'.status = 503
                     \/ last'.status = 429 /\ last'.retry_after = "later")
                 => sleeps' = <<[delay |-> 250, src |-> "backoff"]>>]_vars

\* The default configuration, a first response of 503: one sleep of 0.25 s.
C9_Witness ==
    /\ pc = "running"
    /\ retry_config = DefaultRetryConfig
    /\ calls = 1
    /\ last.kind = "response"
    /\ last.status = 503
    /\ sleeps = <<[delay |-> 250, src |-> "backoff"]>>

-----------------------------------------------------------------------------
(* C10 *)

\* C10: every computed backoff delay is at most 10.0 s, and within one request
\* the computed backoff delays never decrease from one retry to a later one,
\* whatever mix of network failures and retryable statuses caused the retries.
C10_BackoffCappedAndMonotone ==
    \A i \in 1..Len(sleeps) :
        sleeps[i].src = "backoff" =>
            /\ sleeps[i].delay <= BACKOFF_CAP
            /\ \A j \in i..Len(sleeps) :
                  sleeps[j].src = "backoff" => sleeps[i].delay <= sleeps[j].delay

\* Three computed backoffs of one request, from both failure kinds, the last capped.
C10_Witness ==
    /\ Len(sleeps) = 3
    /\ \A i \in 1..3 : sleeps[i].src = "backoff"
    /\ sleeps[1].delay < sleeps[2].delay
    /\ sleeps[3].delay = BACKOFF_CAP
    /\ net_failures = 1

-----------------------------------------------------------------------------
(* C11 *)

\* The class the taxonomy table gives each of the statuses 400, 401, 403, 404, 429.
TaxonomyClassOf ==
    [s \in {400, 401, 403, 404, 429} |->
        CASE s = 400 -> "StatesetInvalidRequestError"
          [] s = 401 -> "StatesetAuthenticationError"
          [] s = 403 -> "StatesetPermissionError"
          [] s = 404 -> "StatesetNotFoundError"
          [] s = 429 -> "StatesetRateLimitError"]

\* C11: when a response of status 400, 401, 403, 404 or 429 ends a request, the
\* error raised has the kind of the taxonomy table for that status, whatever
\* the body, and its status_code is the HTTP status.
C11_ErrorKindFollowsStatus ==
    (/\ pc = "raised"
     /\ last.kind = "response"
     /\ last.status \in DOMAIN TaxonomyClassOf
     /\ last.status \notin expected_statuses(expected))
    => (/\ error.class = TaxonomyClassOf[last.status]
        /\ error.status_code = last.status)

-----------------------------------------------------------------------------
(* C12 *)

TaxonomyClasses ==
    {"StatesetInvalidRequestError", "StatesetAPIError", "StatesetAuthenticationError",
     "StatesetPermissionError", "StatesetNotFoundError", "StatesetConnectionError",
     "StatesetRateLimitError"}

\* C12: every exception that leaves request is one of the seven taxonomy
\* variants, for every response and every transport failure; a request that
\* returned raised none.
C12_OnlyTaxonomyErrorsEscape ==
    /\ pc = "raised" => error.class \in TaxonomyClasses
    /\ pc = "returned" => error = NoError

-----------------------------------------------------------------------------
(* C13 *)

MalformedKinds == {"text", "undecodable", "json_array", "json_scalar"}

-----------------------------------------------------------------------------
(* C17 *)

\* C17: a request that ended on an accepted response returned None when the
\* status is 204 or the body is empty, the parsed JSON when the body is not
\* empty and the Content-Type contains application/json, and the body text
\* otherwise.
C17_DeserializedByContentType ==
    (/\ Finished
     /\ last.kind = "response"
     /\ last.status \in expected_statuses(expected))
    => /\ pc = "returned"
       /\ result.kind =
            IF last.status = 204 \/ last.body.kind = "empty" THEN "None"
            ELSE IF last.content_type = "application/json" THEN "json"
            ELSE "text"
       /\ result.kind # "None" => result.body = last.body

-----------------------------------------------------------------------------
(* Two requests on one client.  asyncio runs one coroutine at a time and
   changes between them at an await: the variables pc ... hist are the locals
   of the request that runs, `peer` holds those of the request that waits at
   its await (the network call or the sleep), and Switch is the event loop
   resuming the other one.  The requestor's own state (retry_config, client)
   is there once. *)

Locals ==
    [pc |-> pc, expected |-> expected, content |-> content, attempts |-> attempts,
     calls |-> calls, net_failures |-> net_failures, sleeps |-> sleeps, last |-> last,
     result |-> result, error |-> error, call |-> call, sent |-> sent, hist |-> hist]

\* Mutant: `attempts` kept on the requestor, one counter for all its requests.
Switch_shared_attempts ==
    /\ peer' = [Locals EXCEPT !.attempts = peer.attempts]
    /\ pc' = peer.pc
    /\ expected' = peer.expected
    /\ content' = peer.content
    /\ attempts' = attempts
    /\ calls' = peer.calls
    /\ net_failures' = peer.net_failures
    /\ sleeps' = peer.sleeps
    /\ last' = peer.last
    /\ result' = peer.result
    /\ error' = peer.error
    /\ call' = peer.call
    /\ sent' = peer.sent
    /\ hist' = peer.hist
    /\ UNCHANGED <<retry_config, ctor, resource, legacy, client>>

\* The running request awaits and the event loop resumes the other one: every
\* local of request belongs to its own coroutine frame.
Switch ==
    /\ peer' = Locals
    /\ pc' = peer.pc
    /\ expected' = peer.expected
    /\ content' = peer.content
    /\ attempts' = peer.attempts
    /\ calls' = peer.calls
    /\ net_failures' = peer.net_failures
    /\ sleeps' = peer.sleeps
    /\ last' = peer.last
    /\ result' = peer.result
    /\ error' = peer.error
    /\ call' = peer.call
    /\ sent' = peer.sent
    /\ hist' = peer.hist
    /\ UNCHANGED <<retry_config, ctor, resource, legacy, client>>

\* What the transport did to one network call.
Raised(exc) == [NoOutcome EXCEPT !.kind = exc]
Responded(status_code, retry_after, content_type, body) ==
    [kind |-> "response", status |-> status_code, retry_after |-> retry_after,
     content_type |-> content_type, body |-> body]

ConcExpected == {[given |-> FALSE, codes |-> {}], [given |-> TRUE, codes |-> {200, 404}]}
ConcStatuses == {200, 404, 429, 503}
\* Status and Retry-After of the responses that are retried.
ConcRetries == {<<503, HeaderAbsent>>, <<429, "1.5">>}

\* Each of the two requests is started once.
ConcStart ==
    /\ pc = "idle"
    /\ \E exp \in ConcExpected : Request(exp)
    /\ hist' = <<>>
    /\ UNCHANGED peer

ConcTimeout ==
    /\ NetworkFails("TimeoutException")
    /\ hist' = Append(hist, Raised("TimeoutException"))
    /\ UNCHANGED peer

ConcAccepted ==
    \E s \in ConcStatuses :
        /\ ResponseAccepted(s, "application/json", Body("json_object", NoField))
        /\ hist' = Append(hist, Responded(s, HeaderAbsent, "application/json",
                                          Body("json_object", NoField)))
        /\ UNCHANGED peer

ConcRetried ==
    \E r \in ConcRetries :
        /\ ResponseRetried(r[1], r[2])
        /\ hist' = Append(hist, Responded(r[1], r[2], "text/plain",
                                          Body("empty", NoField)))
        /\ UNCHANGED peer

ConcRejected ==
    \E s \in ConcStatuses :
        /\ ResponseRejected(s, Body("empty", NoField))
        /\ hist' = Append(hist, Responded(s, HeaderAbsent, "text/plain",
                                          Body("empty", NoField)))
        /\ UNCHANGED peer

ConcInit ==
    /\ Init
    /\ retry_config = DefaultRetryConfig

ConcNext ==
    \/ ConcStart
    \/ ConcTimeout
    \/ ConcAccepted
    \/ ConcRetried
    \/ ConcRejected
    \/ Switch

SpecConcurrent == ConcInit /\ [][ConcNext]_vars

\* One pass of the while loop of request on the locals l when the transport
\* does o to its network call, as a request running alone makes it.
after(l, o) ==
    IF o.kind # "response"
    THEN LET h == handle_network_error(o.kind, l.attempts + 1)
         IN  [l EXCEPT !.attempts = @ + 1, !.calls = @ + 1,
                       !.sleeps = @ \o h.sleep,
                       !.pc = IF h.raises THEN "raised" ELSE "running",
                       !.error = h.error]
    ELSE IF o.status \in expected_statuses(l.expected)
    THEN LET d == deserialize_response(o.status, o.content_type, o.body)
         IN  [l EXCEPT !.calls = @ + 1,
                       !.pc = IF d.raises THEN "raised" ELSE "returned",
                       !.result = IF d.raises THEN NoResult
                                  ELSE [kind |-> d.kind,
                                        body |-> IF d.kind = "None" THEN BodyNotRead
                                                 ELSE o.body],
                       !.error = IF d.raises
                                 THEN Foreign(d.exc)
                                 ELSE NoError]
    ELSE IF should_retry(o.status, l.attempts)
    THEN [l EXCEPT !.calls = @ + 1, !.attempts = @ + 1,
                   !.sleeps = Append(@, sleep_for_retry(o.status, o.retry_after,
                                                        l.attempts))]
    ELSE LET r == raise_for_status_code(o.status, o.body, expected_statuses(l.expected))
         IN  [l EXCEPT !.calls = @ + 1,
                       !.pc = IF r.raises THEN "raised" ELSE "running",
                       !.error = r.error]

RECURSIVE Replay(_, _)
Replay(l, h) == IF h = <<>> THEN l ELSE Replay(after(l, Head(h)), Tail(h))

\* A request alone on the client, started with `exp`, before its first call.
Fresh(exp) ==
    [pc |-> "running", expected |-> exp, attempts |-> 0, calls |-> 0,
     sleeps |-> <<>>, result |-> NoResult, error |-> NoError]

\* What a caller and the transport see of a request.
Observed(l) ==
    [pc |-> l.pc, attempts |-> l.attempts, calls |-> l.calls, sleeps |-> l.sleeps,
     result |-> l.result, error |-> l.error]

\* The request with the locals l is where its own calls' outcomes alone put it.
OnItsOwn(l) ==
    l.pc # "idle" => Observed(l) = Observed(Replay(Fresh(l.expected), l.hist))

-----------------------------------------------------------------------------
(* C21 *)

\* C21: in every interleaving of two requests on one client, the attempts, the
\* network calls, the sleeps and the outcome of each are those that the
\* outcomes of its own network calls give a request running alone, and no
\* request has changed the requestor: its retry configuration, the headers of
\* its client and its stored default headers are as the constructor left them.
C21_RequestsDoNotInterfere ==
    /\ OnItsOwn(Locals)
    /\ OnItsOwn(peer)
    /\ retry_config = DefaultRetryConfig
    /\ client = new_client(ctor)

\* Both requests have finished differently, each after a retry, the one that
\* waits having counted two attempts while the other counted one.
C21_Witness ==
    /\ pc = "returned" /\ attempts = 1 /\ calls = 2
    /\ peer.pc = "raised" /\ peer.attempts = 2 /\ peer.calls = 3
    /\ peer.error.class = "StatesetAPIError"

-----------------------------------------------------------------------------
(* Vocabulary of the client-level properties *)

\* A network call of the running or finished request has reached httpx.
CallSent == sent # NoSent

\* The values sent under the header `name` by the latest network call.
SentValues(name) == {e[2] : e \in {x \in sent.headers : x[1] = name}}

\* The per-call header names that equal `name` ignoring case.
Overrides(name) == {k \in DOMAIN call.args.headers : Lower[k] = name}

-----------------------------------------------------------------------------
(* C14 *)

\* C14: every network call sends, for each header the client holds by default,
\* exactly the default value when no per-call header has that name ignoring
\* case, and exactly the caller's value, and no other, when one has.
C14_CallerHeaderReplacesDefault ==
    CallSent =>
        \A e \in client.headers :
            IF Overrides(e[1]) = {}
            THEN SentValues(e[1]) = {e[2]}
            ELSE SentValues(e[1]) = {call.args.headers[k] : k \in Overrides(e[1])}

-----------------------------------------------------------------------------
(* C15 *)

OnlyKeyAuthorizes ==
    /\ \A k \in DOMAIN ctor.additional_headers : Lower[k] # "authorization"
    /\ "authorization" \notin HeaderKeys(ctor.injected_headers)

-----------------------------------------------------------------------------
(* C16 *)

IsMapping(d) == d.type \in {"dict", "mappingproxy"}
IsPairSequence(d) == d.type \in {"list", "tuple"} /\ d.items \in {"pairs", "empty"}
IsOtherSequence(d) == d.type \in {"list", "tuple"} /\ d.items = "other"

\* C16: with a positional data and no json, content or files, every network
\* call carries a mapping as json alone, a sequence of (str, value) pairs as
\* url-encoded content alone, with the form Content-Type unless the caller
\* supplied a Content-Type, and any other list or tuple as json alone; data is
\* forwarded as None.
C16_BodyInferredFromData ==
    (/\ CallSent
     /\ call.args.json = None /\ call.args.content = None /\ call.args.files = None
     /\ call.args.data # NoData
     /\ call.args.data.type # "str")
    => /\ sent.data = NoData
       /\ IsMapping(call.args.data) \/ IsOtherSequence(call.args.data)
            => sent.json = "data" /\ sent.content = None
       /\ IsPairSequence(call.args.data)
            => /\ sent.json = None
               /\ sent.content = "urlencoded"
               /\ Overrides("content-type") = {}
                    => SentValues("content-type") = {"application/x-www-form-urlencoded"}

-----------------------------------------------------------------------------
(* C18 *)

\* C18: a client constructed with an empty or missing key (and, for
\* client.Stateset, no STATESET_API_KEY in the environment) does not exist:
\* its constructor raised an authentication error, and no network call is
\* ever made.
C18_EmptyKeyFailsConstruction ==
    (/\ ctor.api_key \in {"", None}
     /\ ctor.env_key = None)
    => /\ client.init_error = "StatesetAuthenticationError"
       /\ calls = 0
       /\ ~CallSent

-----------------------------------------------------------------------------
(* C19 *)

\* The step is one aclose() of the client.
AcloseStep == client'.aclose_calls = client.aclose_calls + 1

\* C19: every aclose() leaves the transport the client created closed and
\* raises nothing, and an aclose() after the first changes nothing of the
\* client or of a request.
C19_AcloseIdempotent ==
    [][AcloseStep =>
        /\ client.owns_client => client'.closed
        /\ client.aclose_calls >= 1 => client'.closed = client.closed
        /\ client' = [client EXCEPT !.closed = client'.closed,
                                    !.aclose_calls = client.aclose_calls + 1]
        /\ UNCHANGED <<retry_config, pc, expected, content, attempts, calls,
                       net_failures, sleeps, last, result, error, ctor, resource, legacy, call, sent,
                       hist, peer>>]_vars

\* aclose() was awaited twice on a client that created its transport, which is
\* closed.
C19_Witness ==
    /\ client.owns_client
    /\ client.aclose_calls >= 2
    /\ client.closed

-----------------------------------------------------------------------------
(* C20 *)

\* C20: a request that is running after aclose() has run, started before it or
\* after it, ends only by raising StatesetConnectionError; it returns no value
\* and raises nothing else.
C20_RequestAfterCloseFailsCleanly ==
    [][(client.aclose_calls >= 1 /\ pc = "running" /\ Finished')
        => (pc' = "raised" /\ error'.class = "StatesetConnectionError")]_vars

-----------------------------------------------------------------------------
(* C22 *)

-----------------------------------------------------------------------------
(* C23 *)

\* C23: every network call of a request whose body was form-encoded from a
\* sequence of pairs is sent with Content-Type
\* application/x-www-form-urlencoded and no other Content-Type value, whatever
\* Content-Type the defaults or the per-call headers hold.
C23_FormContentTypeWins ==
    (CallSent /\ infer_body(call.args).form_encoded)
    => SentValues("content-type") = {"application/x-www-form-urlencoded"}

-----------------------------------------------------------------------------
(* C24 *)

\* C24: for a status that raises and a body that is not JSON or does not
\* decode, the error raised is an api_error whose message is
\* "HTTP <status code> <reason phrase>", not the text of the body.
C24_MalformedBodyMessage ==
    (/\ last.kind = "response"
     /\ last.body.kind \in {"text", "undecodable"}
     /\ ~(200 <= last.status /\ last.status < 300)
     /\ last.status \notin expected.codes
     /\ last.status \in HTTPStatus)
    => (/\ pc = "raised"
        /\ error.type = "api_error"
        /\ error.message = HTTPStatusPhrase)

-----------------------------------------------------------------------------
(* C25 *)

\* The classes of StatesetError and its subclasses, in either module.
StatesetErrorClasses ==
    TaxonomyClasses \cup
    {"StatesetError", "StatesetValidationError", "StatesetTimeoutError",
     "StatesetMaintenanceError"}

\* C25: raise_for_status_code, in src/stateset/errors.py and in src/errors.py,
\* returns without raising when the status is in expected_codes or in
\* 200-299, and raises a StatesetError for every other status.
C25_ReturnsOrRaisesStatesetError ==
    last.kind \in {"response", "src/errors.py"}
    => IF last.status \in expected.codes \/ (200 <= last.status /\ last.status < 300)
       THEN pc = "returned" /\ error = NoError
       ELSE pc = "raised" /\ error.class \in StatesetErrorClasses

-----------------------------------------------------------------------------
(* C26 *)

\* A finished request under the default 2xx rule slept once after each call
\* but the last, and made at most max_attempts + 1 calls.
SleepsBetweenCalls ==
    (Finished /\ ~expected.given)
    => /\ Len(sleeps) = calls - 1
       /\ calls <= retry_config.max_attempts + 1

\* C26: the attempt counter grows by exactly one at every failed network
\* call, one that raised or was answered by a status that is not accepted,
\* and at no other step of the request; a finished request under the default
\* 2xx rule has slept calls - 1 times and made at most max_attempts + 1 calls.
C26_CounterGrowsPerFailedCall ==
    [][/\ NetworkCall =>
            attempts' = IF \/ ExceptionStep
                           \/ ResponseStep /\ last'.status \notin expected_statuses(expected)
                        THEN attempts + 1
                        ELSE attempts
       /\ SleepsBetweenCalls']_vars

\* C26 (amended): the attempt counter grows by exactly one at every network
\* call that raised a network-level exception or was answered by a status
\* that is retried, whichever of the two, and is left as it is by a response
\* that ends the request or is passed over; a finished request under the
\* default 2xx rule has slept calls - 1 times and made at most
\* max_attempts + 1 calls.
C26_CounterGrowsPerRetriedCall ==
    [][/\ NetworkCall =>
            attempts' = IF \/ ExceptionStep
                           \/ /\ ResponseStep
                              /\ last'.status \notin expected_statuses(expected)
                              /\ should_retry(last'.status, attempts)
                        THEN attempts + 1
                        ELSE attempts
       /\ SleepsBetweenCalls']_vars

\* A request under the default rule finished on its fourth call, after a
\* timeout and two retried statuses had each been counted: three sleeps.
C26_Witness ==
    /\ Finished /\ ~expected.given
    /\ retry_config.max_attempts = 3
    /\ calls = 4
    /\ attempts = 3
    /\ net_failures = 1
    /\ Len(sleeps) = 3

-----------------------------------------------------------------------------
(* C27 *)

\* C27: every delay passed to sleep during a request lies between 0 and
\* 10.0 s inclusive, whatever the retryable status and whatever Retry-After
\* value the server sent with it.
C27_EveryDelayWithinCap ==
    \A i \in 1..Len(sleeps) :
        /\ 0 <= sleeps[i].delay
        /\ sleeps[i].delay <= BACKOFF_CAP

-----------------------------------------------------------------------------
(* C28 *)

\* C28: the underlying HTTP client is closed exactly when the requestor
\* created it and aclose() has run, by a call or by leaving `async with`; an
\* injected client is never closed, and no request made through it, before or
\* after aclose(), fails on a closed transport.
C28_AcloseClosesOnlyOwnClient ==
    client.init_error = NoInitError =>
        /\ client.closed <=> (client.owns_client /\ client.aclose_calls >= 1)
        /\ ~client.owns_client => error.class # "RuntimeError"

\* aclose() ran on a client built around an injected transport, which is open,
\* and the client's request through that transport returned.
C28_Witness ==
    /\ ~client.owns_client
    /\ client.aclose_calls >= 1
    /\ ~client.closed
    /\ hist = <<>>
    /\ pc = "returned"
    /\ calls >= 1

-----------------------------------------------------------------------------
(* src/base_resource.py: BaseResource and its cache.  The server holds a
   record per resource id, at a version that each successful update raises;
   the resource reads and writes it through client.get, put and delete. *)

MaxVersion == 1
ttl == 300
default_limit == 50

\* The clock is followed until what was cached at the start has expired.
MaxClock == ttl

ResourceIds == {"r1", "r2"}

\* The extra query parameters (**kwargs) of get and list.
QueryKwargs == {EmptyDict, Dict1("expand", "items")}

\* The parameter names of the model in the order sorted() gives them.
SortedNames == <<"expand", "id", "page", "per_page">>

\* f"{v}" of the integers that become query parameters.
Decimal(n) == CASE n = 1 -> "1" [] n = default_limit -> "50"

\* _build_query_params without pagination and filters.
build_query_params(kwargs) ==
    DictUpdate([n \in {"page", "per_page"} |->
                    IF n = "page" THEN Decimal(1) ELSE Decimal(default_limit)],
               kwargs)

\* _get_cache_key: the operation, then one part "k=v" per parameter in sorted
\* order, joined by "|".  A part is kept as the pair <<k, v>>.
get_cache_key(operation, params) ==
    LET names == SelectSeq(SortedNames, LAMBDA n : n \in DOMAIN params)
    IN  [operation |-> operation,
         parts |-> [i \in 1..Len(names) |-> <<names[i], params[names[i]]>>]]

\* The key f"get|id={resource_id}" that _invalidate_resource_caches builds.
get_key(resource_id) == [operation |-> "get", parts |-> <<<<"id", resource_id>>>>]

\* k.startswith("list|")
StartsWithList(k) == k.operation = "list" /\ Len(k.parts) >= 1

\* dict.pop(key, None) on a mapping.
Pop(d, keys) == [k \in DOMAIN d \ keys |-> d[k]]

\* _is_cache_valid
is_cache_valid(r, cache_key) ==
    /\ cache_key \in DOMAIN r.cache_timestamps
    /\ r.now - r.cache_timestamps[cache_key] < ttl

\* _set_cache
set_cache(r, cache_key, data) ==
    IF r.enable_caching
    THEN [r EXCEPT !.cache = (cache_key :> data) @@ r.cache,
                   !.cache_timestamps = (cache_key :> r.now) @@ r.cache_timestamps]
    ELSE r

\* _get_cache returns an entry: whether there is one.
has_cache(r, cache_key) == r.enable_caching /\ cache_key \in DOMAIN r.cache

\* _invalidate_list_caches
invalidate_list_caches(r) ==
    IF ~r.enable_caching
    THEN r
    ELSE LET keys_to_remove == {k \in DOMAIN r.cache : StartsWithList(k)}
         IN  [r EXCEPT !.cache = Pop(@, keys_to_remove),
                       !.cache_timestamps = Pop(@, keys_to_remove)]

\* _invalidate_resource_caches
invalidate_resource_caches(r, resource_id) ==
    IF ~r.enable_caching
    THEN r
    ELSE invalidate_list_caches(
             [r EXCEPT !.cache = Pop(@, {get_key(resource_id)}),
                       !.cache_timestamps = Pop(@, {get_key(resource_id)})])

\* object_class(**response) of the record the server holds, and the
\* PaginatedList of all of them.
ObjectOf(r, id) == [id |-> id, version |-> r.server[id].version]
ListOf(r) == {ObjectOf(r, id) : id \in {i \in ResourceIds : r.server[i].exists}}

NoValue == "<no value>"
NoReturn == [op |-> "none", id |-> None, key |-> None, value |-> NoValue,
             cached |-> FALSE, raised |-> FALSE]

\* BaseResource.__init__ with the records the server holds at that time.
new_resource(enable_caching) ==
    [enable_caching |-> enable_caching,
     cache |-> << >>,
     cache_timestamps |-> << >>,
     now |-> 0,
     server |-> [i \in ResourceIds |-> [exists |-> TRUE, version |-> 0]],
     returned |-> NoReturn]

\* Nothing but the resource takes a step.
ResourceOnly ==
    UNCHANGED <<retry_config, pc, expected, content, attempts, calls, net_failures,
                sleeps, last, result, error, ctor, client, call, sent, hist, peer,
                legacy>>

\* BaseResource.get(id, options, **kwargs)
Get(id, kwargs, force_refresh) ==
    LET cache_key == get_cache_key("get", DictUpdate(Dict1("id", id), kwargs))
        done == [NoReturn EXCEPT !.op = "get", !.id = id, !.key = cache_key]
    IN  /\ resource' =
             IF ~force_refresh /\ has_cache(resource, cache_key)
                               /\ is_cache_valid(resource, cache_key)
             THEN [resource EXCEPT !.returned =
                      [done EXCEPT !.value = resource.cache[cache_key],
                                   !.cached = TRUE]]
             ELSE IF resource.server[id].exists
             THEN [set_cache(resource, cache_key, ObjectOf(resource, id))
                      EXCEPT !.returned =
                          [done EXCEPT !.value = ObjectOf(resource, id)]]
             ELSE [resource EXCEPT !.returned = [done EXCEPT !.raised = TRUE]]
        /\ ResourceOnly

\* BaseResource.list(pagination=None, filters=None, options, **kwargs)
List(kwargs, force_refresh) ==
    LET cache_key == get_cache_key("list", build_query_params(kwargs))
        done == [NoReturn EXCEPT !.op = "list", !.key = cache_key]
    IN  /\ resource' =
             IF ~force_refresh /\ has_cache(resource, cache_key)
                               /\ is_cache_valid(resource, cache_key)
             THEN [resource EXCEPT !.returned =
                      [done EXCEPT !.value = resource.cache[cache_key],
                                   !.cached = TRUE]]
             ELSE [set_cache(resource, cache_key, ListOf(resource))
                      EXCEPT !.returned = [done EXCEPT !.value = ListOf(resource)]]
        /\ ResourceOnly

\* BaseResource.update(id, data, options): client.put raises when the request
\* does not reach the server or the server holds no such record.
Update(id, reached) ==
    LET done == [NoReturn EXCEPT !.op = "update", !.id = id]
        put == [resource EXCEPT !.server[id].version = @ + 1]
    IN  /\ reached => resource.server[id].version < MaxVersion
        /\ resource' =
             IF reached /\ resource.server[id].exists
             THEN [invalidate_resource_caches(put, id)
                      EXCEPT !.returned = [done EXCEPT !.value = ObjectOf(put, id)]]
             ELSE [resource EXCEPT !.returned = [done EXCEPT !.raised = TRUE]]
        /\ ResourceOnly

\* BaseResource.delete(id, options)
Delete(id, reached) ==
    LET done == [NoReturn EXCEPT !.op = "delete", !.id = id]
        deleted == [resource EXCEPT !.server[id].exists = FALSE]
    IN  /\ resource' =
             IF reached /\ resource.server[id].exists
             THEN [invalidate_resource_caches(deleted, id)
                      EXCEPT !.returned = done]
             ELSE [resource EXCEPT !.returned = [done EXCEPT !.raised = TRUE]]
        /\ ResourceOnly

\* datetime.now() moves on by the time an entry stays valid.
Tick ==
    /\ resource.now < MaxClock
    /\ resource' = [resource EXCEPT !.now = @ + ttl]
    /\ ResourceOnly

ResourceInit ==
    /\ retry_config = DefaultRetryConfig
    /\ pc = "idle"
    /\ expected = [given |-> FALSE, codes |-> {}]
    /\ content = "caller"
    /\ attempts = 0
    /\ calls = 0
    /\ net_failures = 0
    /\ sleeps = <<>>
    /\ last = NoOutcome
    /\ result = NoResult
    /\ error = NoError
    /\ ctor = DefaultCtor
    /\ client = new_client(ctor)
    /\ call = NoCall
    /\ sent = NoSent
    /\ hist = <<>>
    /\ peer = NoPeer
    /\ legacy = NoLegacy
    /\ \E enable_caching \in BOOLEAN : resource = new_resource(enable_caching)

ResourceNext ==
    \/ \E id \in ResourceIds, kwargs \in QueryKwargs, force_refresh \in BOOLEAN :
           Get(id, kwargs, force_refresh)
    \/ \E kwargs \in QueryKwargs, force_refresh \in BOOLEAN : List(kwargs, force_refresh)
    \/ \E id \in ResourceIds, reached \in BOOLEAN : Update(id, reached)
    \/ \E id \in ResourceIds, reached \in BOOLEAN : Delete(id, reached)
    \/ Tick

SpecResource == ResourceInit /\ [][ResourceNext]_vars

-----------------------------------------------------------------------------
(* C29 *)

\* The cache key holds the part id=<id>.
KeyOfId(k, id) == \E i \in 1..Len(k.parts) : k.parts[i] = <<"id", id>>

\* What a get or list of that key reads from the server now.
HeldByServer(r, k) ==
    IF k.operation = "list"
    THEN ListOf(r)
    ELSE LET id == CHOOSE i \in ResourceIds : KeyOfId(k, i)
         IN  IF r.server[id].exists THEN ObjectOf(r, id) ELSE NoValue

\* C29: on a resource with caching enabled, a get or list answered from the
\* cache returns what the server holds, never a value cached before a
\* successful update or delete; right after such an update(id) or delete(id)
\* the cache holds no entry for that id and no list entry; and _cache and
\* _cache_timestamps have the same keys.
C29_NoStaleReadAfterMutation ==
    resource.enable_caching =>
        LET returned == resource.returned
        IN  /\ returned.cached =>
                  returned.value = HeldByServer(resource, returned.key)
            /\ (returned.op \in {"update", "delete"} /\ ~returned.raised) =>
                  \A k \in DOMAIN resource.cache :
                      ~StartsWithList(k) /\ ~KeyOfId(k, returned.id)
            /\ DOMAIN resource.cache = DOMAIN resource.cache_timestamps

-----------------------------------------------------------------------------
(* src/client.py: one request through Client._make_request_with_retries, with
   the hooks registered on the client.  A hook is known by its place in its
   list and by what it does when called. *)

MaxRetriesBound == 2

\* RetryConfig.retry_status_codes
retry_status_codes == {429, 500, 502, 503, 504}

LegacyStatuses == {200, 404, 503}

\* The X-RateLimit-Reset header of a response: absent, a timestamp, no number,
\* and a number beyond the platform's time_t.
ResetValues == {HeaderAbsent, "1700000000", "soon", "99999999999999999"}

\* The lists add_request_hook, add_response_hook and add_error_hook built.
HookLists ==
    {<<>>,
     <<"returns">>,
     <<"raises ValueError", "returns">>,
     <<"returns", "raises TimeoutException">>}

\* The for loop of _call_request_hooks, _call_response_hooks and
\* _call_error_hooks from the i-th hook on: the calls it makes.  What a hook
\* raises is caught by `except Exception` and logged.
RECURSIVE call_hooks_from(_, _, _, _)
call_hooks_from(kind, hooks, i, attempt) ==
    IF i > Len(hooks)
    THEN <<>>
    ELSE LET called == <<[hook |-> kind, index |-> i, attempt |-> attempt]>>
         IN  CASE hooks[i] = "returns" ->
                      called \o call_hooks_from(kind, hooks, i + 1, attempt)
               [] OTHER ->
                      called \o call_hooks_from(kind, hooks, i + 1, attempt)

call_hooks(kind, hooks, attempt) == call_hooks_from(kind, hooks, 1, attempt)

\* What datetime.fromtimestamp(int(reset_timestamp)) can raise: ValueError for
\* text that is no integer, OverflowError or OSError (by platform and value)
\* for a number out of the range of time_t.
fromtimestamp_raises(reset_timestamp) ==
    CASE reset_timestamp = "soon" -> {"ValueError"}
      [] reset_timestamp = "99999999999999999" -> {"OverflowError", "OSError"}
      [] OTHER -> {}

\* _update_rate_limit_info: the exceptions that leave it, and the reset it
\* stores when none is raised.
update_rate_limit_info_raises(reset_timestamp) ==
    IF reset_timestamp = HeaderAbsent
    THEN {}
    ELSE fromtimestamp_raises(reset_timestamp) \ {"ValueError", "TypeError"}

update_rate_limit_info(l, reset_timestamp) ==
    IF reset_timestamp # HeaderAbsent /\ fromtimestamp_raises(reset_timestamp) = {}
    THEN [l EXCEPT !.rate_limit_reset = reset_timestamp]
    ELSE l

\* Client._should_retry
legacy_should_retry(l, status_code, attempt) ==
    IF attempt >= l.max_retries
    THEN FALSE
    ELSE status_code \in retry_status_codes

\* Nothing but the request through the Client of src/client.py takes a step.
LegacyOnly ==
    UNCHANGED <<retry_config, pc, expected, content, attempts, calls, net_failures,
                sleeps, last, result, error, ctor, client, call, sent, hist, peer,
                resource>>

\* _make_request_with_retries is awaited: the request hooks are called, with
\* the attempt of a new RequestContext, and the loop is entered.
LegacyRequest(max_retries, request_hooks, response_hooks, error_hooks) ==
    /\ legacy.pc = "none"
    /\ legacy' = [NoLegacy EXCEPT !.pc = "running",
                                  !.max_retries = max_retries,
                                  !.request_hooks = request_hooks,
                                  !.response_hooks = response_hooks,
                                  !.error_hooks = error_hooks,
                                  !.hook_calls = call_hooks("request", request_hooks, 1)]
    /\ LegacyOnly

\* client.request returns a response.
LegacyResponded(status_code, reset_timestamp) ==
    /\ legacy.pc = "running"
    /\ LET outcome == [kind |-> "response", status |-> status_code,
                       exc |-> "none", reset |-> reset_timestamp]
           l0 == [legacy EXCEPT !.outcomes = Append(@, outcome)]
           l1 == [update_rate_limit_info(l0, reset_timestamp) EXCEPT
                      !.hook_calls = @ \o call_hooks("response", legacy.response_hooks,
                                                     legacy.attempt + 1),
                      !.metrics.successful_requests = @ + 1]
       IN  IF update_rate_limit_info_raises(reset_timestamp) # {}
           THEN \E exc \in update_rate_limit_info_raises(reset_timestamp) :
                    legacy' = [l0 EXCEPT !.pc = "raised", !.error = exc]
           ELSE IF legacy_should_retry(legacy, status_code, legacy.attempt)
           THEN legacy' = [l1 EXCEPT !.attempt = @ + 1]
           ELSE legacy' = [l1 EXCEPT !.pc = "returned", !.status = status_code]
    /\ LegacyOnly

\* client.request raises httpx.ConnectError or httpx.TimeoutException.
LegacyConnectFailed(exc) ==
    /\ legacy.pc = "running"
    /\ LET outcome == [kind |-> "error", status |-> 0, exc |-> exc,
                       reset |-> HeaderAbsent]
           l1 == [legacy EXCEPT
                      !.outcomes = Append(@, outcome),
                      !.hook_calls = @ \o call_hooks("error", legacy.error_hooks,
                                                     legacy.attempt + 1),
                      !.metrics.failed_requests = @ + 1]
       IN  IF legacy.attempt < legacy.max_retries
           THEN legacy' = [l1 EXCEPT !.attempt = @ + 1]
           ELSE legacy' = [l1 EXCEPT !.pc = "raised",
                                     !.error = "StatesetConnectionError"]
    /\ LegacyOnly

\* client.request raises an exception the loop has no except clause for.
LegacyOtherFailed(exc) ==
    /\ legacy.pc = "running"
    /\ legacy' = [legacy EXCEPT
                      !.outcomes = Append(@, [kind |-> "other", status |-> 0,
                                              exc |-> exc, reset |-> HeaderAbsent]),
                      !.pc = "raised",
                      !.error = exc]
    /\ LegacyOnly

LegacyInit ==
    /\ Init
    /\ retry_config = DefaultRetryConfig

LegacyNext ==
    \/ \E max_retries \in 0..MaxRetriesBound,
          request_hooks \in HookLists, response_hooks \in HookLists,
          error_hooks \in HookLists :
           LegacyRequest(max_retries, request_hooks, response_hooks, error_hooks)
    \/ \E status_code \in LegacyStatuses, reset_timestamp \in ResetValues :
           LegacyResponded(status_code, reset_timestamp)
    \/ \E exc \in {"ConnectError", "TimeoutException"} : LegacyConnectFailed(exc)
    \/ LegacyOtherFailed("ReadError")

SpecLegacy == LegacyInit /\ [][LegacyNext]_vars

-----------------------------------------------------------------------------
(* C30 *)

\* Every hook of the list once, in registration order, for one attempt.
HookBlock(kind, hooks, attempt) ==
    [i \in 1..Len(hooks) |-> [hook |-> kind, index |-> i, attempt |-> attempt]]

\* The hook calls due after the first n attempts of the request.
RECURSIVE HookCallsDue(_, _)
HookCallsDue(l, n) ==
    IF n = 0
    THEN HookBlock("request", l.request_hooks, 1)
    ELSE HookCallsDue(l, n - 1) \o
         CASE l.outcomes[n].kind = "response" -> HookBlock("response", l.response_hooks, n)
           [] l.outcomes[n].kind = "error" -> HookBlock("error", l.error_hooks, n)
           [] OTHER -> <<>>

\* Where the request stands after its attempts when no hook is registered:
\* retried, returned or raised.
StandsAt(l) ==
    LET n == Len(l.outcomes)
        o == l.outcomes[n]
    IN  IF n = 0 THEN "running"
        ELSE CASE o.kind = "response" ->
                      IF update_rate_limit_info_raises(o.reset) # {}
                      THEN "raised"
                      ELSE IF n - 1 < l.max_retries /\ o.status \in retry_status_codes
                      THEN "running" ELSE "returned"
               [] o.kind = "error" ->
                      IF n - 1 < l.max_retries THEN "running" ELSE "raised"
               [] OTHER -> "raised"

\* C30: in one request through _make_request_with_retries every request hook
\* has been called once, before the first attempt, every response hook once
\* for each attempt that yielded a response and every error hook once for each
\* attempt that failed with a connection or timeout error, all in
\* registration order, whether or not a hook raised; and the request was
\* retried, returned or raised as it would have been without hooks.
C30_HooksOncePerEvent ==
    legacy.pc # "none" =>
        /\ legacy.hook_calls = HookCallsDue(legacy, Len(legacy.outcomes))
        /\ legacy.pc = StandsAt(legacy)
        /\ legacy.attempt = IF legacy.pc = "running"
                            THEN Len(legacy.outcomes)
                            ELSE Len(legacy.outcomes) - 1

====
